---- MODULE Spec2Model ----
(***************************************************************************)
(* annotypes: the signature-introspection engine of _calltypes.py.         *)
(*                                                                         *)
(* make_annotations (the type comment parser), make_call_types (the        *)
(* introspection engine), add_call_types (the function decorator) and      *)
(* CallTypesMeta.__init__ (the class declaration hook) are modelled on the *)
(* values Python hands them: the argspec of a callable, its live           *)
(* __annotations__, the COMMENT tokens of its source and the namespace the *)
(* type expressions are evaluated in.                                      *)
(***************************************************************************)
EXTENDS Integers, Sequences, FiniteSets

VARIABLES
    f,          \* the callable under inspection (Spec)
    fattrs,     \* the attributes add_call_types has attached to f
    out,        \* the last call made on f and how it ended
    classes     \* the classes created through CallTypesMeta (SpecHook)

vars == <<f, fattrs, out, classes>>

(***************************************************************************)
(* Bounds                                                                  *)
(***************************************************************************)
\* The longest list of named formal parameters a callable declares.
MaxArgs == 2
\* The number of classes declared below WithCallTypes.
MaxClasses == 2

(***************************************************************************)
(* Python values                                                           *)
(***************************************************************************)
\* The "no default" sentinel of _anno.
NO_DEFAULT == "NO_DEFAULT"

\* Python's None.
None == [kind |-> "None"]

\* typing.Any, the "any value" marker.
Any == [kind |-> "Any"]

\* A plain type that is no Anno, such as str or float.
Builtin(name) == [kind |-> "type", name |-> name]

\* A class created through the metaclass, as a value.
ClassRef(c) == [kind |-> "class", id |-> c]

\* Anno(description, typ, name): a descriptor without a default.
Anno(description, typ, name) ==
    [kind |-> "Anno", description |-> description, typ |-> typ,
     name |-> name, default |-> NO_DEFAULT]

isinstance_Anno(ob) == ob.kind = "Anno"

isinstance_tuple(ob) == ob.kind = "tuple"

\* A tuple of the values in the sequence items.
Tuple(items) == [kind |-> "tuple", items |-> items]

\* anno_with_default(anno, default): a descriptor gets a copy that carries
\* the default; anything that is no descriptor is handed back as it is.
\* No default in this model is the Any marker.
anno_with_default(anno, default) ==
    IF isinstance_Anno(anno) THEN [anno EXCEPT !.default = default] ELSE anno

\* The outcome of a call: a returned value or a raised exception.
Return(value) == [ok |-> TRUE, value |-> value]

Raise(exc) == [ok |-> FALSE, exc |-> exc]

(***************************************************************************)
(* The namespace type expressions are evaluated in (f.func_globals)        *)
(***************************************************************************)
\* with Anno("..."): Exposure = float, and so on, as in the examples and
\* tests; str is a builtin that is no Anno; NonExistant and Foo are bound
\* nowhere.
Globals ==
    [Exposure |-> Anno("The exposure to be active for", Builtin("float"), "Exposure"),
     Prefix   |-> Anno("The path prefix for the list of writers", Builtin("str"), "Prefix"),
     Good     |-> Anno("Good origin", Builtin("str"), "Good"),
     Any      |-> Any,
     None     |-> None,
     str      |-> Builtin("str")]

(***************************************************************************)
(* Strings as token sequences                                              *)
(*                                                                         *)
(* A comment is the sequence of its lexical pieces: the "# type:" lead,    *)
(* parentheses, commas, splat markers, identifiers, "..." and "->".        *)
(***************************************************************************)
Punctuation == {"# type:", "(", ")", ",", "*", "**", "...", "->"}

IsIdentifier(tok) == tok \notin Punctuation /\ tok # "#"

\* The index of the first occurrence of tok in s from index i on, or 0.
RECURSIVE IndexFrom(_, _, _)
IndexFrom(s, tok, i) ==
    IF i > Len(s) THEN 0
    ELSE IF s[i] = tok THEN i
    ELSE IndexFrom(s, tok, i + 1)

\* type_re.match(string).groups(): the comment must start with "# type: ";
\* group 1 runs to the first " -> " (it holds no "-"), the optional group 2
\* is the arrow with group 3, the rest of the line.  No match is NoMatch.
NoMatch == [matched |-> FALSE]

type_re_match(string) ==
    IF string = <<>> \/ string[1] # "# type:" THEN NoMatch
    ELSE LET rest  == Tail(string)
             arrow == IndexFrom(rest, "->", 1)
         IN  IF arrow = 0
             THEN [matched |-> TRUE, p0 |-> rest, p1 |-> FALSE, p2 |-> <<>>]
             ELSE [matched |-> TRUE,
                   p0 |-> SubSeq(rest, 1, arrow - 1),
                   p1 |-> TRUE,
                   p2 |-> SubSeq(rest, arrow + 1, Len(rest))]

\* parts[0].replace("*", ""): every asterisk goes, so both splat markers do.
replace_star(expr) == SelectSeq(expr, LAMBDA tok : tok \notin {"*", "**"})

\* The literal "(...)".
Continuation == <<"(", "...", ")">>

(***************************************************************************)
(* eval(expr, globals_d, {})                                               *)
(***************************************************************************)
\* The pieces of toks between the commas, from index i on; cur is the piece
\* being read.
RECURSIVE SplitCommas(_, _, _)
SplitCommas(toks, i, cur) ==
    IF i > Len(toks) THEN <<cur>>
    ELSE IF toks[i] = "," THEN <<cur>> \o SplitCommas(toks, i + 1, <<>>)
    ELSE SplitCommas(toks, i + 1, Append(cur, toks[i]))

\* The pieces without the empty one a trailing comma leaves.
DropTrailing(pieces) ==
    IF Len(pieces) > 1 /\ pieces[Len(pieces)] = <<>>
    THEN SubSeq(pieces, 1, Len(pieces) - 1)
    ELSE pieces

\* The names of the elements kept of n pieces, or a syntax error: each
\* element is one identifier.
ElementNames(kept, n) ==
    IF \A i \in 1..Len(kept) : Len(kept[i]) = 1 /\ IsIdentifier(kept[i][1])
    THEN [ok |-> TRUE, names |-> [i \in 1..Len(kept) |-> kept[i][1]],
          commas |-> n - 1]
    ELSE [ok |-> FALSE]

NameError(name) == [type |-> "NameError", name |-> name]

SyntaxError == [type |-> "SyntaxError"]

\* Look the names up left to right: the first unbound one raises NameError.
RECURSIVE Lookup(_, _, _, _)
Lookup(names, i, globals_d, acc) ==
    IF i > Len(names) THEN Return(acc)
    ELSE IF names[i] \notin DOMAIN globals_d THEN Raise(NameError(names[i]))
    ELSE Lookup(names, i + 1, globals_d, Append(acc, globals_d[names[i]]))

\* The value of a display whose elements looked up as r: with no comma it is
\* a parenthesised expression, with one it is a tuple.
DisplayValue(r, commas) ==
    IF ~r.ok THEN r
    ELSE IF commas = 0 THEN Return(r.value[1])
    ELSE Return(Tuple(r.value))

EvalElements(el, globals_d) ==
    IF ~el.ok THEN Raise(SyntaxError)
    ELSE DisplayValue(Lookup(el.names, 1, globals_d, <<>>), el.commas)

EvalDisplay(pieces, globals_d) ==
    EvalElements(ElementNames(DropTrailing(pieces), Len(pieces)), globals_d)

\* eval of a type expression: a name, "()", a parenthesised name, or a
\* tuple display of names.  What is none of these is a syntax error.
eval(expr, globals_d) ==
    IF Len(expr) = 1 /\ IsIdentifier(expr[1])
    THEN DisplayValue(Lookup(expr, 1, globals_d, <<>>), 0)
    ELSE IF Len(expr) = 2 /\ expr = <<"(", ")">>
    THEN Return(Tuple(<<>>))
    ELSE IF Len(expr) > 2 /\ expr[1] = "(" /\ expr[Len(expr)] = ")"
    THEN EvalDisplay(SplitCommas(SubSeq(expr, 2, Len(expr) - 1), 1, <<>>),
                     globals_d)
    ELSE Raise(SyntaxError)

(***************************************************************************)
(* Callables                                                               *)
(*                                                                         *)
(* A callable is what getargspec, __annotations__ and the tokenizer give:  *)
(*   args        the named formal parameters, in declaration order         *)
(*   varargs     the name of the *args parameter, or NoName                *)
(*   keywords    the name of the **kwargs parameter, or NoName             *)
(*   defaults    the positional defaults, those of the last parameters     *)
(*   annotations the live annotations, name -> value (empty: none)         *)
(*   comments    the COMMENT tokens of the source, in file order           *)
(***************************************************************************)
\* arg_spec.varargs or arg_spec.keywords being None.
NoName == "<None>"

\* The values of a sequence.
Range(s) == {s[i] : i \in 1..Len(s)}

\* An empty dict.
EmptyDict == [n \in {} |-> None]

\* The shorter of two lengths: where zip stops.
Min(m, n) == IF m < n THEN m ELSE n

\* dict(zip(keys, values)): a key that comes twice keeps its last value.
dict_zip(keys, values) ==
    [k \in {keys[i] : i \in 1..Min(Len(keys), Len(values))} |->
        values[CHOOSE i \in 1..Min(Len(keys), Len(values)) :
                 /\ keys[i] = k
                 /\ \A j \in (i + 1)..Min(Len(keys), Len(values)) : keys[j] # k]]

\* d[k] = v
dict_set(d, k, v) ==
    [n \in DOMAIN d \cup {k} |-> IF n = k THEN v ELSE d[n]]

\* d.get(k, default)
dict_get(d, k, default) == IF k \in DOMAIN d THEN d[k] ELSE default

\* args = [k for k in arg_spec.args if k != "self"]
without_self(args) == SelectSeq(args, LAMBDA k : k # "self")

(***************************************************************************)
(* make_annotations                                                        *)
(***************************************************************************)
\* The args list of make_annotations: the named parameters but self, then
\* the catch-all names that are declared.
annotation_args(g) ==
    without_self(g.args)
        \o (IF g.varargs # NoName THEN <<g.varargs>> ELSE <<>>)
        \o (IF g.keywords # NoName THEN <<g.keywords>> ELSE <<>>)

EvaluationError(expr, e) ==
    [type |-> "ValueError", msg |-> "Error evaluating %r: %s",
     expr |-> expr, cause |-> e]

EndOfFunction ==
    [type |-> "ValueError",
     msg |-> "Got to the end of the function without seeing ->"]

LengthMismatch(args, types) ==
    [type |-> "AssertionError", msg |-> "Args %r Types %r length mismatch",
     args |-> args, types |-> types]

\* A variant that appends a tuple as one type.
append_types_unflattened(r, expr, types) ==
    IF ~r.ok THEN Raise(EvaluationError(expr, r.exc))
    ELSE Return(Append(types, r.value))

\* types after the value r of the argument expression expr: a tuple adds
\* its items, anything else adds itself; an exception becomes ValueError.
append_types(r, expr, types) ==
    IF ~r.ok THEN Raise(EvaluationError(expr, r.exc))
    ELSE IF isinstance_tuple(r.value) THEN Return(types \o r.value.items)
    ELSE Return(Append(types, r.value))

evaluate_types(expr, types, globals_d) ==
    append_types(eval(expr, globals_d), expr, types)

\* A variant that evaluates "(...)" like any argument part.
add_types_without_marker(p0, types, globals_d) ==
    evaluate_types(replace_star(p0), types, globals_d)

\* The argument part parts[0] of one type comment: "(...)" adds nothing.
add_types(p0, types, globals_d) ==
    IF p0 = Continuation THEN Return(types)
    ELSE evaluate_types(replace_star(p0), types, globals_d)

\* A variant that asserts the lengths before it evaluates p2.
make_ret_assert_first(r, p2, args, types) ==
    IF Len(args) # Len(types) THEN Raise(LengthMismatch(args, types))
    ELSE IF ~r.ok THEN Raise(EvaluationError(p2, r.exc))
    ELSE Return(dict_set(dict_zip(args, types), "return", r.value))

\* A variant without the assert: zip stops at the shorter list.
make_ret_truncated(r, p2, args, types) ==
    IF ~r.ok THEN Raise(EvaluationError(p2, r.exc))
    ELSE Return(dict_set(dict_zip(args, types), "return", r.value))

\* The comment that carries "->", its return expression p2 evaluated as r:
\* an exception becomes ValueError; then the lengths are asserted equal;
\* then the dict is zipped and "return" set.
make_ret(r, p2, args, types) ==
    IF ~r.ok THEN Raise(EvaluationError(p2, r.exc))
    ELSE IF Len(args) # Len(types) THEN Raise(LengthMismatch(args, types))
    ELSE Return(dict_set(dict_zip(args, types), "return", r.value))

finish_return(p2, args, types, globals_d) ==
    make_ret(eval(p2, globals_d), p2, args, types)

\* The for loop over the tokens, from the i-th comment on.
RECURSIVE scan(_, _, _, _, _)
RECURSIVE scan_found(_, _, _, _, _, _)
RECURSIVE scan_added(_, _, _, _, _, _)

\* A variant without the test of parts[1]: every type comment ends the scan.
scan_added_without_test(added, found, comments, i, args, globals_d) ==
    IF ~added.ok THEN added
    ELSE finish_return(found.p2, args, added.value, globals_d)

\* After the argument part: an error ends the call, a return part ends the
\* scan, and without one the scan goes on.
scan_added(added, found, comments, i, args, globals_d) ==
    IF ~added.ok THEN added
    ELSE IF found.p1
    THEN finish_return(found.p2, args, added.value, globals_d)
    ELSE scan(comments, i + 1, args, added.value, globals_d)

\* A comment that type_re does not match is passed over.
scan_found(found, comments, i, args, types, globals_d) ==
    IF ~found.matched THEN scan(comments, i + 1, args, types, globals_d)
    ELSE scan_added(add_types(found.p0, types, globals_d),
                    found, comments, i, args, globals_d)

scan(comments, i, args, types, globals_d) ==
    IF i > Len(comments) THEN Raise(EndOfFunction)
    ELSE scan_found(type_re_match(comments[i]),
                    comments, i, args, types, globals_d)

\* make_annotations(f, globals_d)
make_annotations(g, globals_d) ==
    scan(g.comments, 1, annotation_args(g), <<>>, globals_d)

(***************************************************************************)
(* make_call_types                                                         *)
(***************************************************************************)
\* An OrderedDict is the sequence of its items in insertion order; setting
\* a key that is there keeps its place.
od_set(od, k, v) ==
    IF \E i \in 1..Len(od) : od[i].key = k
    THEN [i \in 1..Len(od) |->
            IF od[i].key = k THEN [key |-> k, value |-> v] ELSE od[i]]
    ELSE Append(od, [key |-> k, value |-> v])

\* list(od): the keys in iteration order.
od_keys(od) == [i \in 1..Len(od) |-> od[i].key]

\* args[-k:] for k > 0: the last k items, all of them when there are fewer.
last_items(args, k) ==
    SubSeq(args, (IF Len(args) > k THEN Len(args) - k + 1 ELSE 1), Len(args))

\* default_args = args[-len(arg_spec.defaults):]
default_args(args, defaults) == last_items(args, Len(defaults))

\* defaults: empty without arg_spec.defaults, else default_args zipped with
\* them.
defaults_dict(args, defaults) ==
    IF defaults = <<>> THEN EmptyDict
    ELSE dict_zip(default_args(args, defaults), defaults)

KeyError(k) == [type |-> "KeyError", key |-> k]

NotAnAnno(a, anno) ==
    [type |-> "AssertionError",
     msg |-> "Argument %r has type %r which is not an Anno",
     arg |-> a, anno |-> anno]

ReturnNotAnAnno(return_type) ==
    [type |-> "AssertionError",
     msg |-> "Return has type %r which is not an Anno",
     anno |-> return_type]

\* A variant that maps the catch-all names as make_annotations lists them.
call_args_with_catch_all(g) ==
    without_self(g.args)
        \o (IF g.varargs # NoName THEN <<g.varargs>> ELSE <<>>)
        \o (IF g.keywords # NoName THEN <<g.keywords>> ELSE <<>>)

\* The names make_call_types maps: the named parameters but self.
call_args(g) == without_self(g.args)

\* The for loop over args, from the i-th on: the call_types, or the first
\* KeyError or AssertionError.
RECURSIVE build_call_types(_, _, _, _, _)
RECURSIVE add_call_type(_, _, _, _, _, _)

add_call_type(anno, args, i, annotations, defaults, call_types) ==
    IF ~isinstance_Anno(anno) THEN Raise(NotAnAnno(args[i], anno))
    ELSE build_call_types(args, i + 1, annotations, defaults,
                          od_set(call_types, args[i], anno))

\* A variant that passes over a parameter without annotation.
build_call_types_skipping(args, i, annotations, defaults, call_types) ==
    IF i > Len(args) THEN Return(call_types)
    ELSE IF args[i] \notin DOMAIN annotations
    THEN build_call_types(args, i + 1, annotations, defaults, call_types)
    ELSE add_call_type(
             anno_with_default(annotations[args[i]],
                               dict_get(defaults, args[i], NO_DEFAULT)),
             args, i, annotations, defaults, call_types)

build_call_types(args, i, annotations, defaults, call_types) ==
    IF i > Len(args) THEN Return(call_types)
    ELSE IF args[i] \notin DOMAIN annotations THEN Raise(KeyError(args[i]))
    ELSE add_call_type(
             anno_with_default(annotations[args[i]],
                               dict_get(defaults, args[i], NO_DEFAULT)),
             args, i, annotations, defaults, call_types)

\* Anno("Any return value", Any, "return")
AnyReturn == Anno("Any return value", Any, "return")

\* A variant without the assert on the return type.
check_return_unchecked(return_type) ==
    IF return_type = Any THEN Return(AnyReturn) ELSE Return(return_type)

\* The return descriptor from return_type, the "return" annotation.
check_return(return_type) ==
    IF return_type = Any THEN Return(AnyReturn)
    ELSE IF return_type = None \/ isinstance_Anno(return_type)
    THEN Return(return_type)
    ELSE Raise(ReturnNotAnAnno(return_type))

return_descriptor(annotations) ==
    check_return(
        anno_with_default(dict_get(annotations, "return", None), NO_DEFAULT))

\* The annotations make_call_types works from: the live ones when there are
\* any, else the ones made from the type comments.
annotations_of(g, globals_d) ==
    IF DOMAIN g.annotations = {} THEN make_annotations(g, globals_d)
    ELSE Return(g.annotations)

\* The pair make_call_types returns.
with_return(call_types, rt) ==
    IF ~rt.ok THEN rt
    ELSE Return([call_types |-> call_types, return_type |-> rt.value])

with_call_types(ct, annotations) ==
    IF ~ct.ok THEN ct
    ELSE with_return(ct.value, return_descriptor(annotations))

with_annotations(got, args, defaults) ==
    IF ~got.ok THEN got
    ELSE with_call_types(
             build_call_types(args, 1, got.value, defaults, <<>>), got.value)

\* make_call_types(f, globals_d): the pair (call_types, return_type).
make_call_types(g, globals_d) ==
    with_annotations(annotations_of(g, globals_d), call_args(g),
                     defaults_dict(call_args(g), g.defaults))

(***************************************************************************)
(* The callables the model inspects                                        *)
(***************************************************************************)
ParamNames == {"self", "a", "b"}

\* The lists of distinct parameter names, to MaxArgs of them.
ArgLists ==
    UNION {{s \in [1..n -> ParamNames] :
              \A i, j \in 1..n : i # j => s[i] # s[j]} : n \in 0..MaxArgs}

\* The default written for a parameter: each parameter has its own.
DefaultOf(name) == "default of " \o name

\* The defaults tuple when the last k parameters of args carry a default.
DefaultsOfLast(args, k) ==
    [i \in 1..k |-> DefaultOf(args[Len(args) - k + i])]

\* What getargspec can return for the bounded signatures.
Signatures ==
    UNION {{[args |-> a, varargs |-> va, keywords |-> kw,
             defaults |-> DefaultsOfLast(a, k)] :
               va \in {NoName, "args"}, kw \in {NoName, "kwargs"},
               k \in 0..Len(a)} : a \in ArgLists}

\* The declared parameters of a signature, named ones first, with the splat
\* marker the type comment syntax writes before the type of each.
Declared(sig) ==
    [i \in 1..Len(sig.args) |-> [name |-> sig.args[i], stars |-> ""]]
        \o (IF sig.varargs # NoName
            THEN <<[name |-> sig.varargs, stars |-> "*"]>> ELSE <<>>)
        \o (IF sig.keywords # NoName
            THEN <<[name |-> sig.keywords, stars |-> "**"]>> ELSE <<>>)

\* The names the author may write as the type of parameter a.
TypesOfA == {"Exposure", "str", "NonExistant"}

\* The name written as the type of a parameter; ta is the one written for a.
TypeNameOf(name, ta) ==
    CASE name = "a"    -> ta
      [] name = "b"    -> "Prefix"
      [] name = "self" -> "Good"
      [] name = "args" -> "Prefix"
      [] OTHER         -> "Exposure"

\* The types the author lists for a signature: one for each declared
\* parameter, or that list without its first item (a method's receiver has
\* none), without its last item, or with one type too many.
ListedTypes(sig, ta) ==
    LET all == [i \in 1..Len(Declared(sig)) |->
                  [name  |-> TypeNameOf(Declared(sig)[i].name, ta),
                   stars |-> Declared(sig)[i].stars]]
    IN  {all, Append(all, [name |-> "Prefix", stars |-> ""])}
            \cup (IF all = <<>> THEN {}
                  ELSE {Tail(all), SubSeq(all, 1, Len(all) - 1)})

\* The tokens of one listed type.
ItemTokens(item) ==
    IF item.stars = "" THEN <<item.name>> ELSE <<item.stars, item.name>>

\* "T1, T2, ..." for the listed types from the i-th on.
RECURSIVE ListTokens(_, _)
ListTokens(items, i) ==
    IF i > Len(items) THEN <<>>
    ELSE ItemTokens(items[i])
             \o (IF i < Len(items) THEN <<",">> ELSE <<>>)
             \o ListTokens(items, i + 1)

\* The names written after "->"; NoArrow is a comment without the part.
NoArrow == "<no arrow>"

ReturnNames == {"None", "Any", "Good", "str", "Foo"}

ArrowTokens(ret) == IF ret = NoArrow THEN <<>> ELSE <<"->", ret>>

\* "# type: (T1, T2) -> R", the signature comment.
SignatureComment(items, ret) ==
    <<"# type:", "(">> \o ListTokens(items, 1) \o <<")">> \o ArrowTokens(ret)

\* "# type: T", the comment on the line of one parameter.
ArgumentComment(item) == <<"# type:", item.name>>

\* "# type: (...) -> R", which closes a list of argument comments.
ContinuationComment(ret) == <<"# type:">> \o Continuation \o ArrowTokens(ret)

\* A comment that is no type comment.
PlainComment == <<"#">>

\* A type comment further down the body, on a name that is bound nowhere.
BodyComment == <<"# type:", "NonExistant">>

\* The COMMENT tokens of the source in each way of writing the types down.
CommentLayouts(items, ret) ==
    {<<SignatureComment(items, ret)>>,
     <<PlainComment, SignatureComment(items, ret), BodyComment>>,
     [i \in 1..Len(items) |-> ArgumentComment(items[i])]
         \o (IF ret = NoArrow THEN <<>> ELSE <<ContinuationComment(ret)>>),
     [i \in 1..Len(items) |-> ArgumentComment(items[i])]
         \o (IF ret = NoArrow THEN <<>> ELSE <<ContinuationComment(ret)>>)
         \o <<BodyComment>>}

\* Callables whose types are in type comments, or nowhere.
CommentCallables ==
    UNION {{[args |-> sig.args, varargs |-> sig.varargs,
             keywords |-> sig.keywords, defaults |-> sig.defaults,
             annotations |-> EmptyDict, comments |-> cs] :
               cs \in {<<>>, <<PlainComment>>} \cup
                      UNION {CommentLayouts(items, ret) :
                               items \in UNION {ListedTypes(sig, ta) :
                                                  ta \in TypesOfA},
                               ret \in ReturnNames \cup {NoArrow}}} :
           sig \in Signatures}

\* The value a live annotation written with a name has.
LiveTypesOfA == {"Exposure", "str"}

LiveReturnNames == {"None", "Any", "Good", "str"}

\* The live annotations of a signature: of every declared parameter but
\* self, of the named ones only, or of all but the first or but the last of
\* the named ones; with or without one for the return value.
LiveAnnotations(sig, ta) ==
    LET named == {n \in Range(sig.args) : n # "self"}
        stars == {sig.varargs, sig.keywords} \ {NoName}
        first == IF without_self(sig.args) = <<>> THEN {}
                 ELSE {without_self(sig.args)[1]}
        last  == IF without_self(sig.args) = <<>> THEN {}
                 ELSE {without_self(sig.args)[Len(without_self(sig.args))]}
    IN  UNION {{[n \in d |-> Globals[TypeNameOf(n, ta)]],
                [n \in d \cup {"return"} |->
                    IF n = "return" THEN Globals[r]
                    ELSE Globals[TypeNameOf(n, ta)]]} :
                 d \in {named \cup stars, named, (named \cup stars) \ first,
                        (named \cup stars) \ last},
                 r \in LiveReturnNames}

\* Callables with live annotations and no type comment.
LiveCallables ==
    UNION {{[args |-> sig.args, varargs |-> sig.varargs,
             keywords |-> sig.keywords, defaults |-> sig.defaults,
             annotations |-> an, comments |-> <<>>] :
               an \in UNION {LiveAnnotations(sig, ta) : ta \in LiveTypesOfA}
                        \ {EmptyDict}} :
           sig \in Signatures}

Callables == CommentCallables \cup LiveCallables

(***************************************************************************)
(* add_call_types and direct calls of make_annotations                     *)
(***************************************************************************)
NoCall == [op |-> "none"]

\* f.call_types, f.return_type = make_call_types(f, f.func_globals): an
\* exception leaves the attributes of f as they were.
add_call_types(attrs, made) ==
    IF made.ok
    THEN [call_types |-> made.value.call_types,
          return_type |-> made.value.return_type]
    ELSE attrs

\* @add_call_types on f.
AddCallTypes ==
    /\ fattrs' = add_call_types(fattrs, make_call_types(f, Globals))
    /\ out' = [op |-> "add_call_types",
               result |-> make_call_types(f, Globals)]
    /\ UNCHANGED <<f, classes>>

\* make_annotations(f, globals_d) called on f as the tests call it.
MakeAnnotations ==
    /\ out' = [op |-> "make_annotations",
               result |-> make_annotations(f, Globals)]
    /\ UNCHANGED <<f, fattrs, classes>>

(***************************************************************************)
(* CallTypesMeta.__init__, the class declaration hook                      *)
(***************************************************************************)
\* Anno("Class instance", typ=cls, name="Instance")
InstanceAnno(c) == Anno("Class instance", ClassRef(c), "Instance")

\* The attributes set on class c when its body holds a constructor whose
\* call types were made as made.
init_attrs(made, c) ==
    IF ~made.ok THEN made
    ELSE Return([call_types |-> made.value.call_types,
                 return_type |-> InstanceAnno(c)])

\* The attributes CallTypesMeta.__init__ sets on the class c whose body
\* holds the constructor init, or None for a body without __init__.
meta_init(c, init) ==
    IF init # None
    THEN init_attrs(make_call_types(init, Globals), c)
    ELSE Return([call_types |-> <<>>, return_type |-> InstanceAnno(c)])

\* A class: its base (0 for object), whether its body defines __init__, and
\* the attributes of its own __dict__.
Class(base, init, dict) ==
    [base |-> base, own_init |-> init # None, dict |-> dict]

\* WithCallTypes is the first class the metaclass creates: index 1.
WithCallTypes == 1

InitialClasses == <<Class(0, None, meta_init(WithCallTypes, None).value)>>

\* getattr(cls, name): the class's own attribute, else the nearest base's.
RECURSIVE getattr(_, _, _)
getattr(cs, c, name) ==
    IF name \in DOMAIN cs[c].dict THEN cs[c].dict[name]
    ELSE getattr(cs, cs[c].base, name)

\* The constructors the declared classes take theirs from: methods of the
\* bounded callables with self first, no catch-all, and one signature
\* comment that returns None.
Constructors ==
    {g \in CommentCallables :
        /\ g.args # <<>> /\ g.args[1] = "self"
        /\ g.varargs = NoName /\ g.keywords = NoName
        /\ Len(g.comments) = 1
        /\ type_re_match(g.comments[1]).matched
        /\ type_re_match(g.comments[1]).p2 = <<"None">>}

\* The classes after a class statement whose hook ended as set: a hook that
\* raises ends the statement, and no class is created.
create_class(cs, base, init, set) ==
    IF set.ok THEN Append(cs, Class(base, init, set.value)) ELSE cs

\* class C(base): with or without a def __init__ in its body.
DefineClass(base, init) ==
    /\ Len(classes) <= MaxClasses
    /\ classes' = create_class(classes, base, init,
                               meta_init(Len(classes) + 1, init))
    /\ UNCHANGED <<f, fattrs, out>>

(***************************************************************************)
(* Specifications                                                          *)
(***************************************************************************)
\* One callable is inspected: decorated, or handed to make_annotations.
Init ==
    /\ f \in Callables
    /\ fattrs = EmptyDict
    /\ out = NoCall
    /\ classes = InitialClasses

Next == AddCallTypes \/ MakeAnnotations

Spec == Init /\ [][Next]_vars

\* def f(): pass
PlainFunction ==
    [args |-> <<>>, varargs |-> NoName, keywords |-> NoName,
     defaults |-> <<>>, annotations |-> EmptyDict, comments |-> <<>>]

\* Classes are declared below WithCallTypes.
InitHook ==
    /\ f = PlainFunction
    /\ fattrs = EmptyDict
    /\ out = NoCall
    /\ classes = InitialClasses

NextHook ==
    \E base \in 1..Len(classes), init \in Constructors \cup {None} :
        DefineClass(base, init)

SpecHook == InitHook /\ [][NextHook]_vars

(***************************************************************************)
(* Properties of make_call_types: the keys of call_types                   *)
(***************************************************************************)
\* The last call was add_call_types, and it derived the call types.
Derived == out.op = "add_call_types" /\ out.result.ok

RECURSIVE NearestInit(_, _)
NearestInit(cs, c) ==
    IF c = 0 THEN 0
    ELSE IF cs[c].own_init THEN c
    ELSE NearestInit(cs, cs[c].base)

\* C2: every class that defines no __init__ of its own has the call_types
\* of its nearest ancestor that defines one, entry for entry.
C2_NoInitHasAncestorCallTypes ==
    \A c \in 1..Len(classes) :
        ~classes[c].own_init /\ NearestInit(classes, c) # 0 =>
            getattr(classes, c, "call_types")
                = getattr(classes, NearestInit(classes, c), "call_types")

\* C3: a class that defines no __init__ of its own has the return
\* descriptor stored on its parent, and creating it leaves the parent's as
\* it was.
C3_NoInitKeepsParentReturn ==
    \A c \in 2..Len(classes) :
        ~classes[c].own_init =>
            getattr(classes, c, "return_type")
                = getattr(classes, classes[c].base, "return_type")

(***************************************************************************)
(* Live annotations and type comments                                      *)
(***************************************************************************)
\* A name that evaluates to value in Globals.
NameOf(value) == CHOOSE n \in DOMAIN Globals : Globals[n] = value

\* g has live annotations, one for each parameter a type comment lists.
LiveComplete(g) ==
    /\ DOMAIN g.annotations # {}
    /\ DOMAIN g.annotations \ {"return"} = Range(annotation_args(g))

\* The splat marker a type comment writes before the type of parameter n.
StarsOf(g, n) ==
    IF n = g.varargs THEN "*" ELSE IF n = g.keywords THEN "**" ELSE ""

\* "# type: (T1, T2) -> R" with names that evaluate to the live annotations
\* of g; a callable without a return annotation returns None.
TwinComment(g) ==
    SignatureComment(
        [i \in 1..Len(annotation_args(g)) |->
            [name  |-> NameOf(g.annotations[annotation_args(g)[i]]),
             stars |-> StarsOf(g, annotation_args(g)[i])]],
        NameOf(dict_get(g.annotations, "return", None)))

\* g with its types moved from live annotations to a type comment.
Twin(g) ==
    [g EXCEPT !.annotations = EmptyDict, !.comments = <<TwinComment(g)>>]

\* C4: make_call_types ends the same way, with the same ordered call_types
\* and the same return descriptor, for a callable with live annotations and
\* for the callable of the same parameters and defaults whose type comment
\* evaluates to the same objects.
C4_LiveEqualsComment ==
    out.op = "add_call_types" /\ LiveComplete(f) =>
        out.result = make_call_types(Twin(f), Globals)

\* Two live-annotated parameters, one with a default, and a return
\* annotation have been derived, and so has the type-comment twin.
C4_Witness ==
    /\ Derived
    /\ LiveComplete(f)
    /\ "return" \in DOMAIN f.annotations
    /\ f.defaults # <<>>
    /\ Len(out.result.value.call_types) = 2
    /\ out.result.value.return_type # None
    /\ make_call_types(Twin(f), Globals).ok

(***************************************************************************)
(* Properties of make_annotations                                          *)
(***************************************************************************)
\* The type comments of g: what type_re matched, in file order.
Matches(g) ==
    SelectSeq([i \in 1..Len(g.comments) |-> type_re_match(g.comments[i])],
              LAMBDA m : m.matched)

\* The place among the type comments of the first one with "->"; 0 when
\* there is none.
FirstArrow(ms) ==
    IF \E i \in 1..Len(ms) : ms[i].p1
    THEN CHOOSE i \in 1..Len(ms) : ms[i].p1 /\ \A j \in 1..(i - 1) : ~ms[j].p1
    ELSE 0

\* The type comments up to the first one with "->", all of them when there
\* is none.
Scanned(g) ==
    IF FirstArrow(Matches(g)) = 0 THEN Matches(g)
    ELSE SubSeq(Matches(g), 1, FirstArrow(Matches(g)))

\* The argument expression of type comment m does not evaluate.
ArgFails(m) ==
    m.p0 # Continuation /\ ~eval(replace_star(m.p0), Globals).ok

\* The first of the type comments ms whose argument expression fails.
FirstFailing(ms) ==
    ms[CHOOSE i \in 1..Len(ms) :
         ArgFails(ms[i]) /\ \A j \in 1..(i - 1) : ~ArgFails(ms[j])]

\* The ValueError for the argument expression of m: it names the expression
\* without its splat markers, and the error eval raised.
ArgError(m) ==
    EvaluationError(replace_star(m.p0), eval(replace_star(m.p0), Globals).exc)

\* The types the type comments ms add, from the i-th on.
RECURSIVE Accumulated(_, _)
Accumulated(ms, i) ==
    IF i > Len(ms) THEN <<>>
    ELSE (IF ms[i].p0 = Continuation THEN <<>>
          ELSE IF isinstance_tuple(eval(replace_star(ms[i].p0), Globals).value)
          THEN eval(replace_star(ms[i].p0), Globals).value.items
          ELSE <<eval(replace_star(ms[i].p0), Globals).value>>)
         \o Accumulated(ms, i + 1)

\* The last call went through make_annotations: it was called on f, or
\* add_call_types found no live annotations on f.
Parsed ==
    \/ out.op = "make_annotations"
    \/ out.op = "add_call_types" /\ DOMAIN f.annotations = {}

\* The scan of f gets to a comment with "->" and evaluates every argument
\* expression on the way.
ReachesArrow(g) ==
    /\ FirstArrow(Matches(g)) # 0
    /\ \A i \in 1..Len(Scanned(g)) : ~ArgFails(Scanned(g)[i])

\* The return expression of the comment with "->".
ReturnExpr(g) == Scanned(g)[Len(Scanned(g))].p2

\* C5: make_annotations on a callable none of whose comments is a type
\* comment returns an empty mapping and raises nothing.
C5_NoCommentsEmptyMapping ==
    out.op = "make_annotations" /\ Matches(f) = <<>> =>
        out.result = Return(EmptyDict)

\* f has no live annotations, and type comments of which none has "->".
NoArrowComments(g) ==
    /\ DOMAIN g.annotations = {}
    /\ Matches(g) # <<>>
    /\ FirstArrow(Matches(g)) = 0

\* C6 as stated: with type comments but none with "->", and no live
\* annotations, the derivation fails with the end-of-function ValueError.
C6_AlwaysEndOfFunction ==
    out.op # "none" /\ NoArrowComments(f) =>
        out.result = Raise(EndOfFunction)

\* C6: with type comments but none with "->", and no live annotations, the
\* derivation returns no mapping and fails with ValueError: the one for the
\* first argument expression that does not evaluate, and the
\* end-of-function one when they all evaluate.
C6_NoArrowFails ==
    out.op # "none" /\ NoArrowComments(f) =>
        /\ ~out.result.ok
        /\ out.result.exc.type = "ValueError"
        /\ out.result.exc =
             IF \E i \in 1..Len(Matches(f)) : ArgFails(Matches(f)[i])
             THEN ArgError(FirstFailing(Matches(f)))
             ELSE EndOfFunction

\* A function with one type comment for each of its two parameters, both
\* of which evaluate, and no "->" anywhere has been decorated.
C6_Witness ==
    /\ out.op = "add_call_types"
    /\ NoArrowComments(f)
    /\ Len(Matches(f)) = 2
    /\ \A i \in 1..2 : ~ArgFails(Matches(f)[i])
    /\ out.result = Raise(EndOfFunction)
    /\ fattrs = EmptyDict

\* C7: when the argument expression of a scanned type comment does not
\* evaluate, make_annotations raises the ValueError that names it without
\* its splat markers and the error of eval; when the return expression does
\* not, the ValueError that names it, whatever the number of types; and the
\* error of eval never leaves in its own type.
C7_EvaluationErrors ==
    Parsed =>
        /\ (\E i \in 1..Len(Scanned(f)) : ArgFails(Scanned(f)[i])) =>
               out.result = Raise(ArgError(FirstFailing(Scanned(f))))
        /\ ReachesArrow(f) /\ ~eval(ReturnExpr(f), Globals).ok =>
               out.result = Raise(EvaluationError(ReturnExpr(f),
                                      eval(ReturnExpr(f), Globals).exc))
        /\ ~out.result.ok =>
               out.result.exc.type \notin {"NameError", "SyntaxError"}

\* make_annotations was called on a function whose signature comment has a
\* splat marker and a name that is bound nowhere.
C7_Witness ==
    /\ out.op = "make_annotations"
    /\ Len(Scanned(f)) = 1
    /\ ArgFails(Scanned(f)[1])
    /\ "*" \in Range(Scanned(f)[1].p0)
    /\ ~out.result.ok
    /\ "*" \notin Range(out.result.exc.expr)
    /\ out.result.exc.cause = NameError("NonExistant")

\* C8 as stated: when the scan gets to the comment with "->" and the types
\* added so far are not as many as the declared names, make_annotations
\* fails with the AssertionError that lists both.
C8_AlwaysAssertionError ==
    Parsed /\ ReachesArrow(f)
           /\ Len(annotation_args(f)) # Len(Accumulated(Scanned(f), 1)) =>
        out.result = Raise(LengthMismatch(annotation_args(f),
                                          Accumulated(Scanned(f), 1)))

\* C8: when the scan gets to the comment with "->" and its return
\* expression evaluates, types that are not as many as the declared names
\* (*args and **kwargs counted, self not) end make_annotations with the
\* AssertionError that lists both, and no mapping is returned from lists of
\* different lengths.
C8_LengthMismatch ==
    Parsed /\ ReachesArrow(f) /\ eval(ReturnExpr(f), Globals).ok =>
        /\ Len(annotation_args(f)) # Len(Accumulated(Scanned(f), 1)) =>
               out.result = Raise(LengthMismatch(annotation_args(f),
                                                 Accumulated(Scanned(f), 1)))
        /\ out.result.ok =>
               Len(annotation_args(f)) = Len(Accumulated(Scanned(f), 1))

\* make_annotations was called on def f(a, *args) whose comment gives one
\* type and a return type that evaluates.
C8_Witness ==
    /\ out.op = "make_annotations"
    /\ ReachesArrow(f)
    /\ eval(ReturnExpr(f), Globals).ok
    /\ f.varargs # NoName
    /\ Len(annotation_args(f)) = 2
    /\ Len(Accumulated(Scanned(f), 1)) = 1
    /\ out.result.exc.type = "AssertionError"

(***************************************************************************)
(* Properties of make_call_types: return descriptor and defaults           *)
(***************************************************************************)
\* The "return" entry of the raw annotations of g, None when there is none.
ReturnEntry(g) ==
    dict_get(annotations_of(g, Globals).value, "return", None)

\* The return entry is None, the Any marker or an Anno.
ReturnEntryFits(g) ==
    \/ ReturnEntry(g) = None
    \/ ReturnEntry(g) = Any
    \/ isinstance_Anno(ReturnEntry(g))

\* Every parameter make_call_types maps has an Anno in the raw annotations.
ParametersDescribed(g) ==
    \A p \in Range(call_args(g)) :
        /\ p \in DOMAIN annotations_of(g, Globals).value
        /\ isinstance_Anno(annotations_of(g, Globals).value[p])

\* What C9 says of the return descriptor that is returned.
ReturnDescriptorFits ==
    /\ ReturnEntry(f) = None => out.result.value.return_type = None
    /\ ReturnEntry(f) = Any => out.result.value.return_type = AnyReturn
    /\ isinstance_Anno(ReturnEntry(f)) =>
           out.result.value.return_type = ReturnEntry(f)

\* C9 as stated: the return descriptor is None for no or a None return
\* entry, the synthesized Any descriptor for the Any marker, the entry when
\* it is an Anno, and in every other case the derivation fails with
\* AssertionError.
C9_AlwaysAssertionError ==
    out.op = "add_call_types" /\ annotations_of(f, Globals).ok =>
        /\ out.result.ok => ReturnDescriptorFits
        /\ ~ReturnEntryFits(f) =>
               ~out.result.ok /\ out.result.exc.type = "AssertionError"

\* C9: once every mapped parameter has its descriptor, make_call_types
\* returns None for no or a None return entry, the synthesized Any
\* descriptor for the Any marker and the entry when it is an Anno, and in
\* every other case fails with the AssertionError on the return type; it
\* never returns a return descriptor that is none of these.
C9_ReturnDescriptor ==
    out.op = "add_call_types" /\ annotations_of(f, Globals).ok =>
        /\ out.result.ok => ReturnDescriptorFits /\ ReturnEntryFits(f)
        /\ ParametersDescribed(f) /\ ReturnEntryFits(f) => out.result.ok
        /\ ParametersDescribed(f) /\ ~ReturnEntryFits(f) =>
               out.result = Raise(ReturnNotAnAnno(ReturnEntry(f)))

\* A function with a described parameter and the return type str, which is
\* no Anno, has been decorated.
C9_Witness ==
    /\ out.op = "add_call_types"
    /\ annotations_of(f, Globals).ok
    /\ call_args(f) # <<>>
    /\ ParametersDescribed(f)
    /\ ReturnEntry(f) = Builtin("str")
    /\ out.result = Raise(ReturnNotAnAnno(Builtin("str")))
    /\ fattrs = EmptyDict

\* Parameter p of g is written with a default: it is among the last
\* len(defaults) named parameters.
HasDefault(g, p) ==
    \E i \in 1..Len(g.args) :
        g.args[i] = p /\ i > Len(g.args) - Len(g.defaults)

\* C10: make_call_types gives each mapped parameter that is written with a
\* default its own default, and each one written without the NO_DEFAULT
\* sentinel; no parameter receives the default of another.
C10_DefaultsByPosition ==
    Derived =>
        \A i \in 1..Len(out.result.value.call_types) :
            out.result.value.call_types[i].value.default =
                IF HasDefault(f, out.result.value.call_types[i].key)
                THEN DefaultOf(out.result.value.call_types[i].key)
                ELSE NO_DEFAULT

(***************************************************************************)
(* Properties of make_call_types: parameters without annotation            *)
(***************************************************************************)
\* The raw annotations make_call_types works from.
RawAnnotations(g) == annotations_of(g, Globals).value

\* The i-th mapped parameter of g has no raw annotation.
Missing(g, i) == call_args(g)[i] \notin DOMAIN RawAnnotations(g)

\* The i-th mapped parameter of g has no raw annotation, or one that is no
\* Anno.
Undescribed(g, i) ==
    \/ Missing(g, i)
    \/ ~isinstance_Anno(RawAnnotations(g)[call_args(g)[i]])

\* The place of the first mapped parameter that is undescribed.
FirstUndescribed(g) ==
    CHOOSE i \in 1..Len(call_args(g)) :
        Undescribed(g, i) /\ \A j \in 1..(i - 1) : ~Undescribed(g, j)

\* f has been decorated, its raw annotations were obtained, and some mapped
\* parameter has none.
UnannotatedParameter ==
    /\ out.op = "add_call_types"
    /\ annotations_of(f, Globals).ok
    /\ \E i \in 1..Len(call_args(f)) : Missing(f, i)

\* C11 as stated: when a mapped parameter has no raw annotation,
\* make_call_types fails with KeyError, and add_call_types attaches neither
\* attribute to the function.
C11_AlwaysKeyError ==
    UnannotatedParameter =>
        /\ ~out.result.ok
        /\ out.result.exc.type = "KeyError"
        /\ fattrs = EmptyDict

\* C11: when a mapped parameter has no raw annotation, make_call_types
\* returns no call_types and add_call_types attaches neither attribute; the
\* failure is that of the first undescribed parameter in declaration order:
\* KeyError when it has no annotation, and the AssertionError on the
\* argument when an earlier parameter has an annotation that is no Anno.
C11_UnannotatedParameterFails ==
    UnannotatedParameter =>
        /\ ~out.result.ok
        /\ fattrs = EmptyDict
        /\ out.result.exc =
             IF Missing(f, FirstUndescribed(f))
             THEN KeyError(call_args(f)[FirstUndescribed(f)])
             ELSE NotAnAnno(call_args(f)[FirstUndescribed(f)],
                      RawAnnotations(f)[call_args(f)[FirstUndescribed(f)]])

\* def f(a: Exposure, b) has been decorated: a has its Anno, b has no
\* annotation, and nothing was attached to f.
C11_Witness ==
    /\ UnannotatedParameter
    /\ Len(call_args(f)) = 2
    /\ ~Undescribed(f, 1)
    /\ Missing(f, 2)
    /\ out.result = Raise(KeyError(call_args(f)[2]))
    /\ fattrs = EmptyDict

(***************************************************************************)
(* Properties of make_annotations: the order of the scan                   *)
(***************************************************************************)
\* The place among the comments of g of the first type comment with "->";
\* 0 when there is none.
TerminatingComment(g) ==
    IF \E i \in 1..Len(g.comments) :
           type_re_match(g.comments[i]).matched /\ type_re_match(g.comments[i]).p1
    THEN CHOOSE i \in 1..Len(g.comments) :
           /\ type_re_match(g.comments[i]).matched
           /\ type_re_match(g.comments[i]).p1
           /\ \A j \in 1..(i - 1) :
                ~(type_re_match(g.comments[j]).matched
                    /\ type_re_match(g.comments[j]).p1)
    ELSE 0

\* g without the comments that follow its terminating comment.
Truncated(g) ==
    [g EXCEPT !.comments = SubSeq(g.comments, 1, TerminatingComment(g))]

\* C12: make_annotations scans the type comments in file order up to the
\* first one with "->": when every expression on the way evaluates and the
\* types are as many as the names, the i-th declared name has the i-th of
\* the types added by those comments (a tuple adds its items, any other
\* value itself, "(...)" nothing) and "return" the value of the return
\* expression; and with a comment with "->" the call ends as it does
\* without the comments that follow it.
C12_ScanInFileOrder ==
    out.op = "make_annotations" =>
        /\ ReachesArrow(f) /\ eval(ReturnExpr(f), Globals).ok
             /\ Len(annotation_args(f)) = Len(Accumulated(Scanned(f), 1)) =>
               /\ out.result.ok
               /\ DOMAIN out.result.value
                    = Range(annotation_args(f)) \cup {"return"}
               /\ \A i \in 1..Len(annotation_args(f)) :
                    out.result.value[annotation_args(f)[i]]
                        = Accumulated(Scanned(f), 1)[i]
               /\ out.result.value["return"]
                    = eval(ReturnExpr(f), Globals).value
        /\ TerminatingComment(f) # 0 =>
               out.result = make_annotations(Truncated(f), Globals)

\* make_annotations returned the mapping of two names from one type comment
\* for each, closed by "(...) -> R" and followed by a type comment on a
\* name that is bound nowhere.
C12_Witness ==
    /\ out.op = "make_annotations"
    /\ out.result.ok
    /\ Len(annotation_args(f)) = 2
    /\ Len(Scanned(f)) = 3
    /\ Scanned(f)[3].p0 = Continuation
    /\ Len(Matches(f)) = 4
    /\ ArgFails(Matches(f)[4])
    /\ out.result.value[annotation_args(f)[2]] = Globals["Prefix"]

(***************************************************************************)
(* Properties of the parameter name lists                                  *)
(***************************************************************************)
\* C13: no named parameter after the first is left out of the name list of
\* make_annotations (the names of the mapping it returns, and the names its
\* length assertion lists) or of make_call_types (the keys of call_types),
\* whatever its name.
C13_OnlyFirstLeftOut ==
    \A i \in 2..Len(f.args) :
        /\ out.op = "make_annotations" /\ out.result.ok =>
               f.args[i] \in DOMAIN out.result.value
        /\ out.op = "make_annotations" /\ ~out.result.ok
             /\ out.result.exc.type = "AssertionError" =>
               f.args[i] \in Range(out.result.exc.args)
        /\ Derived =>
               f.args[i] \in Range(od_keys(out.result.value.call_types))

====
